---- MODULE Spec2Model ----
(***************************************************************************)
(* Client-side realtime synchronisation layer of the hazard-reporting app: *)
(* the WebSocketService channel (services/websocket.ts), the incident      *)
(* cache of useMapStore (stores) and the query/mutation hooks              *)
(* (hooks/useQueries.ts).                                                  *)
(***************************************************************************)
EXTENDS Integers, Sequences, FiniteSets, TLC

\* ------------------------------------------------------------------ bounds
\* socket objects that can be alive (not yet closed) at the same time
MaxSockets == 2
\* setTimeout reconnect timers that can be pending at the same time
MaxTimers == 1
\* setInterval heartbeat timers that can be running at the same time
MaxIntervals == 2

\* incidents the cache can hold
MaxIncidents == 2
\* optimisticVote calls in one run
MaxVotes == 1
\* handlers registered for one event type
MaxHandlers == 2
\* report submissions in one run
MaxReports == 2
\* nearby-incidents requests in one run
MaxFetches == 3
\* taps on a vote button of the detail screen in one run
MaxTaps == 3
\* comments submitted from the detail screen in one run
MaxComments == 2
\* calls made to ApiService in one run
MaxCalls == 2
\* checkNearbyIncidents calls in one run
MaxChecks == 2
\* times the clock is seen to advance in one run
MaxTicks == 2
\* submissions started from the report flow in one run
MaxSubmits == 2

\* ------------------------------------------------------- program constants
maxReconnectAttempts == 5
RETRY_ATTEMPTS == 3
\* the rate limit of checkNearbyIncidents, 12 * 60 * 1000 ms, in minutes
RateLimitMinutes == 12
\* useNotificationStore.nearbyRadius, in metres
nearbyRadius == 100
reconnectDelay == 1000
ENABLE_WEBSOCKET == TRUE

VARIABLES
  ws,                \* this.ws: "null", or the readyState of the socket
  detached,          \* the sockets this.ws no longer refers to and that
                     \* have not closed yet: how many in each readyState
  isConnecting,      \* this.isConnecting
  reconnectAttempts, \* this.reconnectAttempts
  subscriptions,     \* this.subscriptions: a JS Set, in insertion order
  heartbeatInterval, \* this.heartbeatInterval is not null
  intervals,         \* number of setInterval heartbeat timers running
  timers,            \* number of pending setTimeout reconnect timers
  atClose,           \* <<keys of this.subscriptions>> at the last unclean
                     \* close, <<>> once a socket has opened again
  disconnected,      \* disconnect() was called, and connect() not since
  scheduled,         \* the delays scheduleReconnect has passed to setTimeout
                     \* since a socket last opened, oldest first
  last,              \* the handler that ran last and the frames it sent
  incidents,         \* useMapStore: the incidents array
  votes,             \* the optimisticVote calls awaiting the server
  voteCalls,         \* optimisticVote calls made so far
  done,              \* the cache operation that ran last and what it saw
  eventHandlers,     \* this.eventHandlers: event type -> array of handlers
  delivered,         \* the frame ws.onmessage got last and what it did
  report,            \* the report submission in progress, or the last one
  calls,             \* the requests that submission has issued, in order
  hazards,           \* App.js: the hazards state
  reports,           \* submissions made so far
  started,           \* nearby-incidents requests started so far
  inflight,          \* the nearby-incidents requests awaiting their response
  newest,            \* <<the response to the request started last>>
  ballot,            \* IncidentDetailScreen: the incident shown, the vote call
                     \* awaiting the server and the votes the server accepted
  thread,            \* IncidentDetailScreen: newComment, isSubmittingComment,
                     \* the cached incident and the state of the detail query
  authToken,         \* ApiService.authToken: <<>> for null, or <<token>>
  apiCalls,          \* the calls made to ApiService and how far each has got
  geo,               \* the call of a geohash utility made last: its arguments
                     \* and what it returned
  notificationStore, \* useNotificationStore: isEnabled, lastNotificationTime
  notifier,          \* Date.now() in minutes, the checkNearbyIncidents calls
                     \* awaiting the scheduler, and the notifications shown
  wizard,            \* ReportFlow: its state, the values its handleNext closed
                     \* over, and the create mutation
  since401           \* whether a 401 has arrived with no token set since, the
                     \* token it found, and the Authorization headers of the
                     \* requests issued since then

chanVars == <<ws, detached, isConnecting, reconnectAttempts, subscriptions,
              heartbeatInterval, intervals, timers, atClose, disconnected,
              scheduled>>

cacheVars == <<incidents, votes, voteCalls, done>>

evVars == <<eventHandlers, delivered>>

reportVars == <<report, calls, hazards, reports>>

fetchVars == <<started, inflight, newest>>

\* the state of the sections above
syncVars == <<chanVars, last, cacheVars, evVars, reportVars, fetchVars>>

ballotVars == <<ballot>>

\* the state of the sections after the nearby fetches
threadVars == <<thread>>

restVars == <<authToken, apiCalls, since401>>

geoVars == <<geo>>

notifyVars == <<notificationStore, notifier>>

wizardVars == <<wizard>>

clientVars == <<ballotVars, threadVars, restVars, geoVars, notifyVars,
                wizardVars>>

vars == <<ws, detached, isConnecting, reconnectAttempts, subscriptions,
          heartbeatInterval, intervals, timers, atClose, disconnected,
          scheduled, last, incidents, votes, voteCalls, done, eventHandlers,
          delivered, report, calls, hazards, reports, started, inflight,
          newest, ballot, thread, authToken, apiCalls,
          since401, geo, notificationStore, notifier, wizard>>

\* ----------------------------------------------------------------- strings
\* A string is a sequence of characters; "area", "incident" and "unknown"
\* are kept as one token each, they hold no separator.
Sep == ":"

Range(f) == {f[i] : i \in DOMAIN f}

\* the topics the application asks for
AreaSub(prefix) == [action |-> "subscribeArea", geohashPrefix |-> prefix]
IncidentSub(id) == [action |-> "subscribeIncident", incidentId |-> id]

Subs == {AreaSub(<<"9">>), IncidentSub(<<"a", Sep, "b">>)}

NoSub == [action |-> "none"]

getSubscriptionKey(subscription) ==
  IF subscription.action = "subscribeArea"
    THEN <<"area", Sep>> \o subscription.geohashPrefix
    ELSE IF subscription.action = "subscribeIncident"
      THEN <<"incident", Sep>> \o subscription.incidentId
      ELSE <<"unknown">>

\* position of the first separator of s at or after from, Len(s)+1 if none
RECURSIVE NextSep(_, _)
NextSep(s, from) ==
  IF from > Len(s) THEN Len(s) + 1
  ELSE IF s[from] = Sep THEN from
  ELSE NextSep(s, from + 1)

\* const [type, value] = subscriptionKey.split(':')
SplitType(key) == SubSeq(key, 1, NextSep(key, 1) - 1)
SplitHasValue(key) == NextSep(key, 1) <= Len(key)
SplitValue(key) ==
  SubSeq(key, NextSep(key, 1) + 1, NextSep(key, NextSep(key, 1) + 1) - 1)

\* Set.add: appends when absent, keeps insertion order
SetAdd(set, key) == IF key \in Range(set) THEN set ELSE Append(set, key)

\* Set.delete
SetDelete(set, key) == SelectSeq(set, LAMBDA k : k # key)

\* { action: 'unsubscribe', ...subscription }: later keys win
Spread(a, b) ==
  [k \in DOMAIN a \cup DOMAIN b |-> IF k \in DOMAIN b THEN b[k] ELSE a[k]]

UnsubscribeFrame(subscription) == Spread([action |-> "unsubscribe"], subscription)

PingFrame == [type |-> "ping"]

\* ----------------------------------------------------------------- sockets
\* WebSocket.readyState. RECONNECTING is CONNECTING of a socket made by the
\* connect() of a reconnect timer; ABORTING is CLOSING of a socket that was
\* closed before it opened. A socket object has no identity for the program
\* beyond being this.ws or not, so the others are only counted.
Pending == {"CONNECTING", "RECONNECTING"}

Kinds == {"CONNECTING", "RECONNECTING", "OPEN", "CLOSING", "ABORTING"}

RECURSIVE Sum(_, _)
Sum(f, S) ==
  IF S = {} THEN 0
  ELSE LET x == CHOOSE y \in S : TRUE IN f[x] + Sum(f, S \ {x})

\* sockets that have not closed yet
Live(cur, det) == (IF cur \in Pending \cup {"OPEN"} THEN 1 ELSE 0) + Sum(det, Kinds)

\* sockets that are open or connecting
Alive ==
  (IF ws \in Pending \cup {"OPEN"} THEN 1 ELSE 0)
    + detached["CONNECTING"] + detached["RECONNECTING"] + detached["OPEN"]

\* get isConnected(): this.ws?.readyState === WebSocket.OPEN
isConnected == ws = "OPEN"

Note(op, sub, sent) == [op |-> op, sub |-> sub, sent |-> sent, wanted |-> <<>>]

\* ------------------------------------------------------ subscribe, replay
\* subscribe(): the state after the call and the frames it sent
subscribeResult(set, open, subscription) ==
  IF ~open
    THEN [subs |-> set, sent |-> <<>>]
    ELSE [subs |-> SetAdd(set, getSubscriptionKey(subscription)),
          sent |-> <<subscription>>]

unsubscribeResult(set, open, subscription) ==
  IF ~open
    THEN [subs |-> set, sent |-> <<>>]
    ELSE [subs |-> SetDelete(set, getSubscriptionKey(subscription)),
          sent |-> <<UnsubscribeFrame(subscription)>>]

\* resubscribe(): Set.forEach visits the keys in insertion order, those
\* added during the visit included
RECURSIVE resubscribeFrom(_, _, _, _)
resubscribeFrom(set, i, sent, open) ==
  IF i > Len(set) THEN [subs |-> set, sent |-> sent]
  ELSE
    LET key == set[i]
        type == SplitType(key)
        sub == IF type = <<"area">> /\ SplitHasValue(key)
                 THEN AreaSub(SplitValue(key))
               ELSE IF type = <<"incident">> /\ SplitHasValue(key)
                 THEN IncidentSub(SplitValue(key))
               ELSE NoSub
        r == IF sub = NoSub THEN [subs |-> set, sent |-> <<>>]
             ELSE subscribeResult(set, open, sub)
    IN resubscribeFrom(r.subs, i + 1, sent \o r.sent, open)

resubscribe(set, open) == resubscribeFrom(set, 1, <<>>, open)

\* ------------------------------------------------------------ the channel
InitChannel ==
  /\ ws = "null"
  /\ detached = [k \in Kinds |-> 0]
  /\ isConnecting = FALSE
  /\ reconnectAttempts = 0
  /\ subscriptions = <<>>
  /\ heartbeatInterval = FALSE
  /\ intervals = 0
  /\ timers = 0
  /\ atClose = <<>>
  /\ disconnected = FALSE
  /\ scheduled = <<>>
  /\ last = Note("init", NoSub, <<>>)

\* connect(): the guard of line 27
connectIsNoOp == ~ENABLE_WEBSOCKET \/ isConnected \/ isConnecting

\* connect(), lines 21-36; the socket this.ws referred to stays as it is
connect(made) ==
  IF connectIsNoOp
    THEN UNCHANGED <<ws, detached, isConnecting>>
    ELSE /\ isConnecting' = TRUE
         /\ ws' = made
         /\ detached' = IF ws \in Pending
                          THEN [detached EXCEPT ![ws] = @ + 1]
                          ELSE detached
         /\ Live(ws', detached') <= MaxSockets

\* the application calls connect() (App.js, MapScreen)
Connect ==
  /\ connect("CONNECTING")
  /\ disconnected' = FALSE
  /\ last' = Note("connect", NoSub, <<>>)
  /\ UNCHANGED <<reconnectAttempts, subscriptions, heartbeatInterval,
                 intervals, timers, atClose, scheduled>>
  /\ UNCHANGED <<cacheVars, evVars, reportVars, fetchVars, clientVars>>

\* a reconnect timer set by scheduleReconnect fires, lines 179-183
TimerFire ==
  /\ timers > 0
  /\ timers' = timers - 1
  /\ connect("RECONNECTING")
  /\ last' = Note("timer", NoSub, <<>>)
  /\ UNCHANGED <<reconnectAttempts, subscriptions, heartbeatInterval,
                 intervals, atClose, disconnected, scheduled>>
  /\ UNCHANGED <<cacheVars, evVars, reportVars, fetchVars, clientVars>>

\* ws.onopen, lines 37-44, of a socket in state `was`, with this.ws open or not
onopen(was, open) ==
  /\ intervals < MaxIntervals
  /\ isConnecting' = FALSE
  /\ reconnectAttempts' = 0
  \* startHeartbeat()
  /\ heartbeatInterval' = TRUE
  /\ intervals' = intervals + 1
  \* resubscribe(), through this.ws
  /\ LET r == resubscribe(subscriptions, open)
     IN /\ subscriptions' = r.subs
        /\ last' = [op |-> IF was = "RECONNECTING" THEN "reopen" ELSE "open",
                    sub |-> NoSub, sent |-> r.sent, wanted |-> atClose]
  /\ atClose' = <<>>
  /\ scheduled' = <<>>
  /\ UNCHANGED <<timers, disconnected>>

\* the socket of this.ws opens
SocketOpen ==
  /\ ws \in Pending
  /\ ws' = "OPEN"
  /\ UNCHANGED detached
  /\ onopen(ws, TRUE)
  /\ UNCHANGED <<cacheVars, evVars, reportVars, fetchVars, clientVars>>

\* a socket this.ws no longer refers to opens
DetachedOpen(k) ==
  /\ k \in Pending
  /\ detached[k] > 0
  /\ detached' = [detached EXCEPT ![k] = @ - 1, !["OPEN"] = @ + 1]
  /\ UNCHANGED ws
  /\ onopen(k, isConnected)
  /\ UNCHANGED <<cacheVars, evVars, reportVars, fetchVars, clientVars>>

\* the delay with the exponent one too high
delayOfNextPower(attempts) == reconnectDelay * 2 ^ attempts

\* the delay of scheduleReconnect, line 175, after the increment of line 174
delayOf(attempts) == reconnectDelay * 2 ^ (attempts - 1)

\* the reconnect decision without the cap on the attempts
shouldReconnectUncapped(wasClean) == ~wasClean

\* the reconnect decision of onclose, line 60
shouldReconnect(wasClean) ==
  ~wasClean /\ reconnectAttempts < maxReconnectAttempts

\* ws.onclose, lines 55-63, of a socket in state `was`, with event.wasClean
onclose(was, wasClean) ==
  /\ isConnecting' = FALSE
  \* stopHeartbeat()
  /\ heartbeatInterval' = FALSE
  /\ intervals' = IF heartbeatInterval THEN intervals - 1 ELSE intervals
  \* scheduleReconnect()
  /\ IF shouldReconnect(wasClean)
       THEN /\ timers < MaxTimers
            /\ reconnectAttempts' = reconnectAttempts + 1
            /\ timers' = timers + 1
            /\ scheduled' = Append(scheduled, delayOf(reconnectAttempts'))
       ELSE UNCHANGED <<reconnectAttempts, timers, scheduled>>
  /\ atClose' = IF wasClean THEN atClose ELSE <<Range(subscriptions)>>
  /\ last' = Note(IF wasClean THEN "close"
                  ELSE IF was \in {"CLOSING", "ABORTING"}
                    THEN "unclean after disconnect"
                    ELSE "unclean",
                  NoSub, <<>>)
  /\ UNCHANGED <<subscriptions, disconnected>>

\* the connection attempt of this.ws fails: onerror, then onclose, in one
\* task; onerror, lines 65-69, only clears isConnecting, as onclose does
SocketFail ==
  /\ ws \in Pending
  /\ ws' = "CLOSED"
  /\ UNCHANGED detached
  /\ onclose(ws, FALSE)
  /\ UNCHANGED <<cacheVars, evVars, reportVars, fetchVars, clientVars>>

\* the connection attempt of a socket this.ws no longer refers to fails, or
\* the close() of disconnect() ends it
DetachedFail(k) ==
  /\ k \in Pending \cup {"ABORTING"}
  /\ detached[k] > 0
  /\ detached' = [detached EXCEPT ![k] = @ - 1]
  /\ UNCHANGED ws
  /\ onclose(k, FALSE)
  /\ UNCHANGED <<cacheVars, evVars, reportVars, fetchVars, clientVars>>

\* the open socket of this.ws is closed by the peer or the network; the
\* closing handshake may or may not complete
SocketClose(wasClean) ==
  /\ ws = "OPEN"
  /\ ws' = "CLOSED"
  /\ UNCHANGED detached
  /\ onclose(ws, wasClean)
  /\ UNCHANGED <<cacheVars, evVars, reportVars, fetchVars, clientVars>>

\* an open socket this.ws no longer refers to is closed, or the close() of
\* disconnect() completes
DetachedClose(k, wasClean) ==
  /\ k \in {"OPEN", "CLOSING"}
  /\ detached[k] > 0
  /\ detached' = [detached EXCEPT ![k] = @ - 1]
  /\ UNCHANGED ws
  /\ onclose(k, wasClean)
  /\ UNCHANGED <<cacheVars, evVars, reportVars, fetchVars, clientVars>>

\* ws.close(1000, ...) as seen by the socket
closeCall(state) ==
  CASE state \in Pending -> "ABORTING"
    [] state = "OPEN" -> "CLOSING"
    [] OTHER -> state

\* disconnect(), lines 78-86
Disconnect ==
  \* stopHeartbeat()
  /\ heartbeatInterval' = FALSE
  /\ intervals' = IF heartbeatInterval THEN intervals - 1 ELSE intervals
  /\ subscriptions' = <<>>
  /\ detached' = IF ws \in Pending \cup {"OPEN"}
                   THEN [detached EXCEPT ![closeCall(ws)] = @ + 1]
                   ELSE detached
  /\ ws' = "null"
  /\ disconnected' = TRUE
  /\ last' = Note("disconnect", NoSub, <<>>)
  /\ UNCHANGED <<isConnecting, reconnectAttempts, timers, atClose, scheduled>>
  /\ UNCHANGED <<cacheVars, evVars, reportVars, fetchVars, clientVars>>

\* subscribe(subscription), lines 88-99
Subscribe(subscription) ==
  LET r == subscribeResult(subscriptions, isConnected, subscription)
  IN /\ subscriptions' = r.subs
     /\ last' = Note("subscribe", subscription, r.sent)
     /\ UNCHANGED <<ws, detached, isConnecting, reconnectAttempts,
                    heartbeatInterval, intervals, timers, atClose,
                    disconnected, scheduled>>
     /\ UNCHANGED <<cacheVars, evVars, reportVars, fetchVars, clientVars>>

\* unsubscribe(subscription), lines 101-114
Unsubscribe(subscription) ==
  LET r == unsubscribeResult(subscriptions, isConnected, subscription)
  IN /\ subscriptions' = r.subs
     /\ last' = Note("unsubscribe", subscription, r.sent)
     /\ UNCHANGED <<ws, detached, isConnecting, reconnectAttempts,
                    heartbeatInterval, intervals, timers, atClose,
                    disconnected, scheduled>>
     /\ UNCHANGED <<cacheVars, evVars, reportVars, fetchVars, clientVars>>

\* a heartbeat interval fires, lines 187-191
HeartbeatTick ==
  /\ intervals > 0
  /\ last' = Note("heartbeat", NoSub, IF isConnected THEN <<PingFrame>> ELSE <<>>)
  /\ UNCHANGED chanVars
  /\ UNCHANGED <<cacheVars, evVars, reportVars, fetchVars, clientVars>>

NextChannel ==
  \/ Connect
  \/ TimerFire
  \/ SocketOpen
  \/ \E k \in Kinds : DetachedOpen(k)
  \/ SocketFail
  \/ \E k \in Kinds : DetachedFail(k)
  \/ \E wasClean \in BOOLEAN : SocketClose(wasClean)
  \/ \E k \in Kinds, wasClean \in BOOLEAN : DetachedClose(k, wasClean)
  \/ Disconnect
  \/ \E sub \in Subs : Subscribe(sub)
  \/ \E sub \in Subs : Unsubscribe(sub)
  \/ HeartbeatTick

\* ---------------------------------------------------------- incident cache
\* An incident, with the fields the cache operations read or write and one
\* more (status) standing for the rest of the record.
Incident(id, score, updatedAt, status) ==
  [id |-> id, score |-> score, updatedAt |-> updatedAt, status |-> status]

\* the records the server sends: two versions of x1 and one of x2
ServerIncidents ==
  {Incident("x1", 0, 1, "open"),
   Incident("x1", 1, 2, "acknowledged"),
   Incident("x2", 0, 1, "open")}

Ids == {r.id : r \in ServerIncidents}

\* the item lists of a nearby response: distinct ids
NearbyItems ==
  {<<>>} \cup {<<r>> : r \in ServerIncidents}
         \cup {<<r, q>> : r \in {x \in ServerIncidents : x.id = "x1"},
                          q \in {x \in ServerIncidents : x.id = "x2"}}

MessageTypes ==
  {"incident.created", "incident.updated", "incident.voted", "incident.commented"}

\* currentIncidents.find(i => i.id === id): <<>> when there is none
Find(list, id) ==
  LET hits == SelectSeq(list, LAMBDA i : i.id = id)
  IN IF hits = <<>> THEN <<>> ELSE <<hits[1]>>

\* useMapStore.setIncidents, lines 109-111
setIncidents(list, new) == new

\* useMapStore.addIncident, lines 113-119
addIncident(list, incident) ==
  IF \E i \in DOMAIN list : list[i].id = incident.id
    THEN list
    ELSE <<incident>> \o list

\* useMapStore.updateIncident, lines 121-128
updateIncident(list, incident) ==
  [i \in DOMAIN list |-> IF list[i].id = incident.id THEN incident ELSE list[i]]

\* what the other flows did to the incident of a pending vote: `other` is the
\* entry they left in the cache last
Touched(vs, old, new) ==
  [i \in DOMAIN vs |->
     IF Find(new, vs[i].id) = Find(old, vs[i].id) THEN vs[i]
     ELSE [vs[i] EXCEPT !.touched = TRUE, !.other = Find(new, vs[i].id)]]

Did(op, id, value, before, other, touched) ==
  [op |-> op, id |-> id, value |-> value, before |-> before, other |-> other,
   touched |-> touched]

InitCache ==
  /\ incidents = <<>>
  /\ votes = <<>>
  /\ voteCalls = 0
  /\ done = Did("init", "", 0, <<>>, <<>>, FALSE)

\* useNearbyIncidents.onSuccess, useQueries.ts lines 48-56: the new array
onSuccess(list, after, items) ==
  IF after THEN setIncidents(list, list \o items)
  ELSE setIncidents(list, items)

\* a nearby response arrives
NearbySuccess(after, items) ==
  LET new == onSuccess(incidents, after, items)
  IN /\ Len(new) <= MaxIncidents
     /\ incidents' = new
     /\ votes' = Touched(votes, incidents, new)
     /\ done' = Did(IF after THEN "append" ELSE "replace", "", 0, <<>>,
                     IF after THEN items ELSE <<>>, FALSE)
     /\ UNCHANGED voteCalls
     /\ UNCHANGED <<chanVars, last, evVars, reportVars, fetchVars, clientVars>>

\* handleWebSocketMessage, useQueries.ts lines 170-199; invalidateQueries
\* marks the detail query stale and does not touch the cache
handleWebSocketMessage(list, type, data) ==
  CASE type = "incident.created" -> addIncident(list, data)
    [] type = "incident.updated" -> updateIncident(list, data)
    [] type = "incident.voted" -> updateIncident(list, data)
    [] OTHER -> list

\* a realtime event reaches handleWebSocketMessage
WebSocketMessage(type, data) ==
  LET new == handleWebSocketMessage(incidents, type, data)
  IN /\ Len(new) <= MaxIncidents
     /\ incidents' = new
     /\ votes' = Touched(votes, incidents, new)
     /\ done' = Did(type, data.id, 0, Find(incidents, data.id), <<data>>, FALSE)
     /\ UNCHANGED voteCalls
     /\ UNCHANGED <<chanVars, last, evVars, reportVars, fetchVars, clientVars>>

\* optimisticVote up to the await, useQueries.ts lines 252-269
optimisticApply(list, found, voteValue) ==
  IF found # <<>>
    THEN updateIncident(list, [found[1] EXCEPT !.score = @ + voteValue])
    ELSE list

VoteStart(incidentId, voteValue) ==
  LET incident == Find(incidents, incidentId)
      new == optimisticApply(incidents, incident, voteValue)
  IN /\ voteCalls < MaxVotes
     /\ voteCalls' = voteCalls + 1
     /\ incidents' = new
     /\ votes' = Append(Touched(votes, incidents, new),
                        [id |-> incidentId, value |-> voteValue,
                         incident |-> incident, other |-> <<>>,
                         touched |-> FALSE])
     /\ done' = Did("vote", incidentId, voteValue, incident, <<>>, FALSE)
     /\ UNCHANGED <<chanVars, last, evVars, reportVars, fetchVars, clientVars>>

Without(seq, n) == [i \in 1..(Len(seq) - 1) |-> IF i < n THEN seq[i] ELSE seq[i + 1]]

\* the catch of optimisticVote, useQueries.ts lines 270-279
rollback(list, found, voteValue) ==
  IF found # <<>>
    THEN updateIncident(list, [found[1] EXCEPT !.score = @ - voteValue])
    ELSE list

\* the vote call of pending vote n fails
VoteFail(n) ==
  LET v == votes[n]
      new == rollback(incidents, v.incident, v.value)
  IN /\ n \in DOMAIN votes
     /\ incidents' = new
     /\ votes' = Touched(Without(votes, n), incidents, new)
     /\ done' = Did("voteFailed", v.id, v.value, v.incident, v.other, v.touched)
     /\ UNCHANGED voteCalls
     /\ UNCHANGED <<chanVars, last, evVars, reportVars, fetchVars, clientVars>>

\* the reconciliation with the server's score added to the cached one
voteConfirmedOnTop(list, id, score) ==
  LET incident == Find(list, id)
  IN IF incident # <<>>
       THEN updateIncident(list, [incident[1] EXCEPT !.score = @ + score])
       ELSE list

\* useVoteIncident.onSuccess, useQueries.ts lines 125-140
voteConfirmed(list, id, score) ==
  LET incident == Find(list, id)
  IN IF incident # <<>>
       THEN updateIncident(list, [incident[1] EXCEPT !.score = score])
       ELSE list

\* the vote call of pending vote n succeeds with data.score = score
VoteSuccess(n, score) ==
  LET v == votes[n]
      new == voteConfirmed(incidents, v.id, score)
  IN /\ n \in DOMAIN votes
     /\ incidents' = new
     /\ votes' = Touched(Without(votes, n), incidents, new)
     /\ done' = Did("voteConfirmed", v.id, score, Find(incidents, v.id), v.other, v.touched)
     /\ UNCHANGED voteCalls
     /\ UNCHANGED <<chanVars, last, evVars, reportVars, fetchVars, clientVars>>

ServerScores == {r.score : r \in ServerIncidents}

NextCache ==
  \/ \E after \in BOOLEAN, items \in NearbyItems : NearbySuccess(after, items)
  \/ \E type \in MessageTypes, data \in ServerIncidents : WebSocketMessage(type, data)
  \/ \E id \in Ids, voteValue \in {1, -1} : VoteStart(id, voteValue)
  \/ \E n \in 1..MaxVotes : VoteFail(n)
  \/ \E n \in 1..MaxVotes, score \in ServerScores : VoteSuccess(n, score)

\* ------------------------------------------------------ event dispatch
\* event.data of a frame: text that is not JSON, the JSON text null, a JSON
\* object without a type, or a typed event
Frame(json, type, data) == [json |-> json, type |-> type, data |-> data]

NotJson == Frame("invalid", "", <<>>)
NullJson == Frame("null", "", <<>>)
Untyped == Frame("object", "", <<>>)
EventFrame(type, data) == Frame("object", type, <<data>>)

\* the event types on() is called with, and one more the server sends
HandledTypes == {"incident.created", "incident.updated"}

FrameTypes == HandledTypes \cup {"pong"}

Frames ==
  {NotJson, NullJson, Untyped}
    \cup {EventFrame(t, Incident("x1", 0, 1, "open")) : t \in FrameTypes}

\* the handlers a caller passes to on(): one that returns, one that throws,
\* and handleMessage of MapScreen, lines 58-60
Handlers == {"returns", "throws"}

MapScreenHandler == "handleMessage"

\* this.eventHandlers.get(type): <<>> stands for undefined, forEach over an
\* empty array does as little
handlersOf(map, type) == IF type \in DOMAIN map THEN map[type] ELSE <<>>

\* on(eventType, handler), lines 116-121
on(map, eventType, handler) ==
  [t \in DOMAIN map \cup {eventType} |->
     IF t = eventType THEN Append(handlersOf(map, eventType), handler)
     ELSE map[t]]

\* handlers.indexOf(handler): 0 stands for -1
RECURSIVE indexOf(_, _, _)
indexOf(handlers, handler, i) ==
  IF i > Len(handlers) THEN 0
  ELSE IF handlers[i] = handler THEN i
  ELSE indexOf(handlers, handler, i + 1)

\* off(eventType, handler), lines 123-131
off(map, eventType, handler) ==
  IF eventType \notin DOMAIN map THEN map
  ELSE LET index == indexOf(map[eventType], handler, 1)
       IN IF index = 0 THEN map
          ELSE [map EXCEPT ![eventType] = Without(@, index)]

\* what a dispatch has done so far: the handlers called, the errors logged,
\* the cache, and whether an exception is propagating
Dispatch(invoked, errors, threw, cache) ==
  [invoked |-> invoked, errors |-> errors, threw |-> threw, cache |-> cache]

\* handler(message)
runHandler(handler, message, cache) ==
  IF handler = MapScreenHandler
    THEN handleWebSocketMessage(cache, message.type, message.data[1])
    ELSE cache

\* the call of a handler without the try/catch around it
callUnguarded(handler, message, acc) ==
  Dispatch(Append(acc.invoked, handler), acc.errors, handler = "throws",
           runHandler(handler, message, acc.cache))

\* try { handler(message) } catch (error) { console.error(...) }, lines 137-141
callHandler(handler, message, acc) ==
  Dispatch(Append(acc.invoked, handler),
           acc.errors + (IF handler = "throws" THEN 1 ELSE 0), FALSE,
           runHandler(handler, message, acc.cache))

\* handlers.forEach, line 136: an exception leaving the callback ends it
RECURSIVE forEachHandler(_, _, _, _)
forEachHandler(handlers, i, message, acc) ==
  IF i > Len(handlers) \/ acc.threw THEN acc
  ELSE forEachHandler(handlers, i + 1, message,
                      callHandler(handlers[i], message, acc))

\* handleMessage(message), lines 133-144; message.type of null throws
handleMessage(map, message, cache) ==
  IF message.json = "null" THEN Dispatch(<<>>, 0, TRUE, cache)
  ELSE forEachHandler(handlersOf(map, message.type), 1, message,
                      Dispatch(<<>>, 0, FALSE, cache))

\* ws.onmessage, lines 46-53: JSON.parse throws on text that is not JSON, and
\* the catch logs whatever was thrown
onmessage(map, frame, cache) ==
  IF frame.json = "invalid" THEN Dispatch(<<>>, 1, FALSE, cache)
  ELSE LET r == handleMessage(map, frame, cache)
       IN IF r.threw THEN Dispatch(r.invoked, r.errors + 1, FALSE, r.cache)
          ELSE r

InitEvents ==
  /\ eventHandlers = <<>>
  /\ delivered = [frame |-> Untyped, invoked |-> <<>>,
                  errors |-> 0, uncaught |-> FALSE, afterThrow |-> FALSE]

\* a caller registers a handler
On(eventType, handler) ==
  /\ Len(handlersOf(eventHandlers, eventType)) < MaxHandlers
  /\ eventHandlers' = on(eventHandlers, eventType, handler)
  /\ UNCHANGED <<chanVars, last, cacheVars, delivered, reportVars, fetchVars, clientVars>>

\* a caller removes a handler
Off(eventType, handler) ==
  /\ eventHandlers' = off(eventHandlers, eventType, handler)
  /\ UNCHANGED <<chanVars, last, cacheVars, delivered, reportVars, fetchVars, clientVars>>

\* a frame arrives on the open socket of this.ws
OnMessage(frame) ==
  LET r == onmessage(eventHandlers, frame, incidents)
  IN /\ isConnected
     /\ incidents' = r.cache
     /\ votes' = Touched(votes, incidents, r.cache)
     /\ delivered' = [frame |-> frame,
                      invoked |-> r.invoked, errors |-> r.errors,
                      uncaught |-> r.threw,
                      afterThrow |-> "throws" \in Range(delivered.invoked)]
     /\ UNCHANGED <<chanVars, last, voteCalls, done, eventHandlers>>
     /\ UNCHANGED <<reportVars, fetchVars, clientVars>>

\* MapScreen's initialize effect, lines 48-68, calls connect() and registers
\* no handler (lines 63-64 are comments): it is Connect
NextEvents ==
  \/ Connect
  \/ SocketOpen
  \/ SocketClose(TRUE)
  \/ Subscribe(AreaSub(<<"9">>))
  \/ \E t \in HandledTypes, h \in Handlers : On(t, h)
  \/ \E t \in HandledTypes, h \in Handlers : Off(t, h)
  \/ \E frame \in Frames : OnMessage(frame)

\* ----------------------------------------------------------------- reports
\* text typed by the user, a sequence of characters
Space == " "

Texts == {<<>>, <<Space>>, <<"p">>, <<Space, "p", Space>>}

\* String.prototype.trim
RECURSIVE trimStart(_)
trimStart(s) ==
  IF s # <<>> /\ Head(s) = Space THEN trimStart(Tail(s)) ELSE s

RECURSIVE trimEnd(_)
trimEnd(s) ==
  IF s # <<>> /\ s[Len(s)] = Space
    THEN trimEnd(SubSeq(s, 1, Len(s) - 1))
    ELSE s

trim(s) == trimEnd(trimStart(s))

\* the ids of the reports of one run: incident.id of the create response,
\* Date.now().toString() in App.js
ReportIds == <<"r1", "r2", "r3">>

\* a request and how it ended: "pending", "ok" or "failed"
Call(name, status) == [call |-> name, status |-> status]

\* the request issued last has settled
settle(cs, ok) ==
  [cs EXCEPT ![Len(cs)].status = IF ok THEN "ok" ELSE "failed"]

\* a submission: which screen made it, where it stands, the location it
\* uses, the trimmed description, whether it has a photo, the photo reference
\* it sends with the create call, and the lists as they were when it began
Report(flow, pc, location, text, photo, photoSent, before) ==
  [flow |-> flow, pc |-> pc, location |-> location, text |-> text,
   photo |-> photo, photoSent |-> photoSent, before |-> before]

Lists == [incidents |-> incidents, hazards |-> hazards]

InitReport ==
  /\ report = Report("none", "idle", "none", <<>>, FALSE, "none",
                     [incidents |-> <<>>, hazards |-> <<>>])
  /\ calls = <<>>
  /\ hazards = <<>>
  /\ reports = 0

\* no submission is in progress
Settled ==
  report.pc \in {"idle", "rejected", "failed", "success", "confirmation"}

\* ReportFlow.handleSubmit, part_001 lines 666-686, with mutationFn up to
\* its first await, useQueries.ts lines 80-90
handleSubmit(currentLocation, description, photoUri) ==
  LET rejected == ~currentLocation \/ trim(description) = <<>>
      first == IF photoUri THEN "requestUpload" ELSE "createIncident"
  IN /\ Settled
     /\ reports < MaxReports
     /\ reports < Len(ReportIds)
     /\ reports' = reports + 1
     /\ report' = Report("ReportFlow", IF rejected THEN "rejected" ELSE first,
                         IF currentLocation THEN "current" ELSE "none",
                         trim(description), photoUri, "none", Lists)
     /\ calls' = IF rejected THEN <<>> ELSE <<Call(first, "pending")>>
     /\ UNCHANGED <<hazards, chanVars, last, cacheVars, evVars, fetchVars, clientVars>>

\* apiService.requestUpload() settles, useQueries.ts lines 84-85; a rejection
\* rejects the mutation, and handleSubmit's catch shows the error
RequestUploadDone(ok) ==
  /\ report.pc = "requestUpload"
  /\ report' = [report EXCEPT !.pc = IF ok THEN "uploadPhoto" ELSE "failed"]
  /\ calls' = IF ok THEN Append(settle(calls, ok), Call("uploadPhoto", "pending"))
              ELSE settle(calls, ok)
  /\ UNCHANGED <<hazards, reports, chanVars, last, cacheVars, evVars, fetchVars, clientVars>>

\* apiService.uploadPhoto() settles, useQueries.ts lines 85-93
UploadPhotoDone(ok) ==
  /\ report.pc = "uploadPhoto"
  /\ report' = [report EXCEPT !.pc = IF ok THEN "createIncident" ELSE "failed",
                              !.photoSent = IF ok THEN "uploaded" ELSE @]
  /\ calls' = IF ok THEN Append(settle(calls, ok), Call("createIncident", "pending"))
              ELSE settle(calls, ok)
  /\ UNCHANGED <<hazards, reports, chanVars, last, cacheVars, evVars, fetchVars, clientVars>>

\* apiService.createIncident() settles: onSuccess, useQueries.ts lines
\* 95-111, or onError, lines 112-114
CreateIncidentDone(ok) ==
  LET incident == Incident(ReportIds[reports], 0, 1, "open")
      new == IF ok THEN addIncident(incidents, incident) ELSE incidents
      r == IF ok /\ isConnected
             THEN subscribeResult(subscriptions, TRUE, IncidentSub(<<incident.id>>))
             ELSE [subs |-> subscriptions, sent |-> <<>>]
  IN /\ report.flow = "ReportFlow"
     /\ report.pc = "createIncident"
     /\ report' = [report EXCEPT !.pc = IF ok THEN "success" ELSE "failed"]
     /\ calls' = settle(calls, ok)
     /\ incidents' = new
     /\ votes' = Touched(votes, incidents, new)
     /\ subscriptions' = r.subs
     /\ last' = IF ok /\ isConnected
                  THEN Note("subscribe", IncidentSub(<<incident.id>>), r.sent)
                  ELSE last
     /\ UNCHANGED <<ws, detached, isConnecting, reconnectAttempts,
                    heartbeatInterval, intervals, timers, atClose,
                    disconnected, scheduled>>
     /\ UNCHANGED <<hazards, reports, voteCalls, done, evVars, fetchVars, clientVars>>

\* ReportScreen.handleSubmit, part_007 lines 119-132, and
\* App.handleReportSubmit up to its first await, App.js lines 254-262;
\* userLocation is what the location watch has stored, if anything
AppSubmit(title, description, images, userLocation) ==
  LET rejected == trim(title) = <<>> \/ trim(description) = <<>>
  IN /\ Settled
     /\ reports < MaxReports
     /\ reports < Len(ReportIds)
     /\ reports' = reports + 1
     /\ report' = Report("App",
                         IF rejected THEN "rejected" ELSE "getCurrentPosition",
                         IF userLocation THEN "stored" ELSE "none",
                         trim(description), images, "none", Lists)
     /\ calls' = IF rejected THEN <<>>
                 ELSE <<Call("getCurrentPosition", "pending")>>
     /\ UNCHANGED <<hazards, chanVars, last, cacheVars, evVars, fetchVars, clientVars>>

\* Location.getCurrentPositionAsync settles, App.js lines 260-277 and
\* 323-346: a failure falls back to userLocation, or to 37.7749, -122.4194
PositionDone(ok) ==
  /\ report.pc = "getCurrentPosition"
  /\ report' = [report EXCEPT
                  !.pc = "uploadImagesToS3",
                  !.location = IF ok THEN "fresh"
                               ELSE IF @ = "stored" THEN "stored"
                               ELSE "default"]
  /\ calls' = Append(settle(calls, ok), Call("uploadImagesToS3", "pending"))
  /\ UNCHANGED <<hazards, reports, chanVars, last, cacheVars, evVars, fetchVars, clientVars>>

\* uploadImagesToS3 settles, App.js lines 274-301 and 329-353: on failure
\* the local URIs are used
S3Done(ok) ==
  /\ report.pc = "uploadImagesToS3"
  /\ report' = [report EXCEPT
                  !.pc = "saveReport",
                  !.photoSent = IF ~report.photo THEN "none"
                                ELSE IF ok THEN "uploaded" ELSE "local"]
  /\ calls' = Append(settle(calls, ok), Call("saveReport", "pending"))
  /\ UNCHANGED <<hazards, reports, chanVars, last, cacheVars, evVars, fetchVars, clientVars>>

\* the report App.js builds, lines 286-295 and 340-349
newReport ==
  [id |-> ReportIds[reports], description |-> report.text,
   images |-> report.photoSent, location |-> report.location]

\* saveReport settles, App.js lines 300-322 and 352-371: a failure is logged
\* and the report is added to hazards all the same
SaveDone(ok) ==
  /\ report.pc = "saveReport"
  /\ report' = [report EXCEPT !.pc = "confirmation"]
  /\ calls' = settle(calls, ok)
  /\ hazards' = Append(hazards, newReport)
  /\ UNCHANGED <<reports, chanVars, last, cacheVars, evVars, fetchVars, clientVars>>

NextReport ==
  \/ \E currentLocation \in BOOLEAN, description \in Texts, photoUri \in BOOLEAN :
       handleSubmit(currentLocation, description, photoUri)
  \/ \E ok \in BOOLEAN : RequestUploadDone(ok)
  \/ \E ok \in BOOLEAN : UploadPhotoDone(ok)
  \/ \E ok \in BOOLEAN : CreateIncidentDone(ok)
  \/ \E title \in {<<>>, <<"t">>}, description \in Texts, images \in BOOLEAN,
        userLocation \in BOOLEAN :
       AppSubmit(title, description, images, userLocation)
  \/ \E ok \in BOOLEAN : PositionDone(ok)
  \/ \E ok \in BOOLEAN : S3Done(ok)
  \/ \E ok \in BOOLEAN : SaveDone(ok)

\* ---------------------------------------------------------- nearby fetches
\* a request of the nearby query: its number in the order of starting, the
\* items the server answers it with, and how it ended
Request(n, items, status) == [request |-> n, items |-> items, status |-> status]

InitFetch ==
  /\ started = 0
  /\ inflight = {}
  /\ newest = Request(0, <<>>, "none")

\* useLocationBasedQueries, lines 230-245: the location changes, or the
\* query is refetched or invalidated, and queryFn, line 45, sends a request;
\* the requests before it are not cancelled
FetchStart(items) ==
  /\ started < MaxFetches
  /\ started' = started + 1
  /\ inflight' = inflight \cup {Request(started + 1, items, "pending")}
  /\ newest' = Request(started + 1, items, "pending")
  /\ UNCHANGED <<chanVars, last, cacheVars, evVars, reportVars, clientVars>>

\* the request with number n that awaits its response
requestOf(n) == CHOOSE f \in inflight : f.request = n

\* the response to request n arrives: onSuccess, lines 48-56, without a
\* cursor (useLocationBasedQueries passes none)
FetchSuccess(n) ==
  LET f == requestOf(n)
      new == onSuccess(incidents, FALSE, f.items)
  IN /\ \E g \in inflight : g.request = n
     /\ inflight' = inflight \ {f}
     /\ newest' = IF n = newest.request
                    THEN [newest EXCEPT !.status = "ok"]
                    ELSE newest
     /\ incidents' = new
     /\ votes' = Touched(votes, incidents, new)
     /\ UNCHANGED <<started, voteCalls, done>>
     /\ UNCHANGED <<chanVars, last, evVars, reportVars, clientVars>>

\* request n fails: onError, lines 57-59, logs it
FetchError(n) ==
  /\ \E g \in inflight : g.request = n
  /\ inflight' = inflight \ {requestOf(n)}
  /\ newest' = IF n = newest.request
                 THEN [newest EXCEPT !.status = "failed"]
                 ELSE newest
  /\ UNCHANGED <<started, chanVars, last, cacheVars, evVars, reportVars, clientVars>>

NextFetch ==
  \/ \E items \in NearbyItems : FetchStart(items)
  \/ \E n \in 1..MaxFetches : FetchSuccess(n)
  \/ \E n \in 1..MaxFetches : FetchError(n)

\* ------------------------------------------------- votes of the detail screen
\* the scores POST /incidents/{id}/vote can answer with
VoteScores == (0 - MaxTaps)..MaxTaps

InitBallot ==
  ballot = [incidents |-> <<Incident("x1", 0, 1, "open")>>, pending |-> <<>>,
            cast |-> <<>>, taps |-> 0]

\* isVoting of useOptimisticVote: voteMutation.isPending
isVoting == ballot.pending # <<>>

\* IncidentDetailScreen.handleVote, part_001 lines 80-91, up to the await of
\* optimisticVote; the vote buttons are disabled while isVoting
handleVote(value) ==
  LET incident == Find(ballot.incidents, "x1")
  IN /\ ~isVoting
     /\ ballot.taps < MaxTaps
     /\ ballot' = [ballot EXCEPT
                     !.incidents = optimisticApply(@, incident, value),
                     !.pending = <<[value |-> value, incident |-> incident]>>,
                     !.taps = @ + 1]
     /\ UNCHANGED <<syncVars, threadVars, restVars, geoVars, notifyVars,
                 wizardVars>>

\* voteMutation.mutateAsync rejects: the catch of optimisticVote
HandleVoteFailed ==
  /\ isVoting
  /\ ballot' = [ballot EXCEPT
                  !.incidents = rollback(@, ballot.pending[1].incident,
                                         ballot.pending[1].value),
                  !.pending = <<>>]
  /\ UNCHANGED <<syncVars, threadVars, restVars, geoVars, notifyVars,
                 wizardVars>>

\* voteMutation.mutateAsync resolves with data.score = score
HandleVoteSucceeded(score) ==
  /\ isVoting
  /\ ballot' = [ballot EXCEPT
                  !.incidents = voteConfirmed(@, "x1", score),
                  !.pending = <<>>,
                  !.cast = Append(@, ballot.pending[1].value)]
  /\ UNCHANGED <<syncVars, threadVars, restVars, geoVars, notifyVars,
                 wizardVars>>

NextBallot ==
  \/ \E value \in {1, -1} : handleVote(value)
  \/ HandleVoteFailed
  \/ \E score \in VoteScores : HandleVoteSucceeded(score)

\* ---------------------------------------------- comments of the detail screen
\* a cached incident with its commentsCount
Commented(count) == Incident("x1", 0, 1, "open") @@ [commentsCount |-> count]

InitThread ==
  thread = [incidents |-> <<Commented(0)>>, newComment |-> <<>>,
            isSubmittingComment |-> FALSE, stale |-> FALSE, sent |-> 0,
            outcome |-> "none"]

\* onChangeText of the comment input
SetNewComment(text) ==
  /\ ~thread.isSubmittingComment
  /\ thread.newComment # text
  /\ thread' = [thread EXCEPT !.newComment = text]
  /\ UNCHANGED <<syncVars, ballotVars, restVars, geoVars, notifyVars,
                 wizardVars>>

\* IncidentDetailScreen.handleAddComment, part_001 lines 93-111, up to the
\* await; the send button is disabled while isSubmittingComment
handleAddComment ==
  /\ trim(thread.newComment) # <<>>
  /\ ~thread.isSubmittingComment
  /\ thread.sent < MaxComments
  /\ thread' = [thread EXCEPT !.isSubmittingComment = TRUE, !.sent = @ + 1,
                               !.outcome = "pending"]
  /\ UNCHANGED <<syncVars, ballotVars, restVars, geoVars, notifyVars,
                 wizardVars>>

\* useAddComment.onSuccess, useQueries.ts lines 153-158: invalidateQueries
\* marks the detail query stale
addCommentSuccess(t) == [t EXCEPT !.stale = TRUE]

\* addCommentMutation.mutateAsync settles: the rest of handleAddComment
AddCommentDone(ok) ==
  /\ thread.isSubmittingComment
  /\ thread' = IF ok
       THEN [addCommentSuccess(thread) EXCEPT !.newComment = <<>>,
               !.isSubmittingComment = FALSE, !.outcome = "ok"]
       ELSE [thread EXCEPT !.isSubmittingComment = FALSE, !.outcome = "failed"]
  /\ UNCHANGED <<syncVars, ballotVars, restVars, geoVars, notifyVars,
                 wizardVars>>

\* a realtime event about the incident reaches handleWebSocketMessage
ThreadEvent(type, count) ==
  /\ thread' = [thread EXCEPT
       !.incidents = handleWebSocketMessage(@, type, Commented(count)),
       !.stale = @ \/ type = "incident.commented"]
  /\ thread' # thread
  /\ UNCHANGED <<syncVars, ballotVars, restVars, geoVars, notifyVars,
                 wizardVars>>

\* the detail query refetches; its data is not written to the store
DetailRefetch ==
  /\ thread.stale
  /\ thread' = [thread EXCEPT !.stale = FALSE]
  /\ UNCHANGED <<syncVars, ballotVars, restVars, geoVars, notifyVars,
                 wizardVars>>

NextThread ==
  \/ \E text \in Texts : SetNewComment(text)
  \/ handleAddComment
  \/ \E ok \in BOOLEAN : AddCommentDone(ok)
  \/ \E type \in {"incident.updated", "incident.commented"},
        count \in 0..MaxComments : ThreadEvent(type, count)
  \/ DetailRefetch

\* ------------------------------------------------------------- REST calls
\* error.response?.status of a settled request: 200 when it resolved, 0 for
\* a network error or timeout (no response)
Statuses == {200, 401, 404, 500, 0}

\* the arguments of setAuthToken: null, the empty string, a token
Tokens == {<<>>, <<"">>, <<"t1">>}

\* how a call reaches the API: an endpoint method called directly, as every
\* hook does, or a request function handed to retryRequest
Vias == {"endpoint", "retryRequest"}

ApiCall(via, pc, i, statuses, delays) ==
  [via |-> via, pc |-> pc, i |-> i, statuses |-> statuses, delays |-> delays]

InitRest ==
  /\ authToken = <<>>
  /\ apiCalls = [n \in 1..MaxCalls |-> ApiCall("none", "idle", 0, <<>>, <<>>)]
  /\ since401 = [cleared |-> FALSE, token |-> <<>>, headers |-> {}]

\* ApiService.setAuthToken, line 52
setAuthToken(token) == token

SetAuthToken(token) ==
  /\ authToken # token
  /\ authToken' = setAuthToken(token)
  /\ since401' = IF token = <<>> THEN since401
                 ELSE [cleared |-> FALSE, token |-> <<>>, headers |-> {}]
  /\ UNCHANGED apiCalls
  /\ UNCHANGED <<syncVars, ballotVars, threadVars, geoVars, notifyVars,
                 wizardVars>>

\* the request interceptor, lines 29-37: the Authorization header of the
\* request, <<>> when it has none
requestInterceptor(token) ==
  IF token # <<>> /\ token[1] # "" THEN <<"Bearer", token[1]>> ELSE <<>>

\* this.api.get / this.api.post: the request leaves with the header the
\* request interceptor gave it
issue(c) == [c EXCEPT !.pc = "inflight"]

Issued ==
  since401' = IF since401.cleared
                THEN [since401 EXCEPT !.headers = @ \cup {requestInterceptor(authToken)}]
                ELSE since401

\* a hook calls an endpoint method, or retryRequest is called with one
ApiCallStart(n, via) ==
  /\ apiCalls[n].pc = "idle"
  /\ \A m \in 1..(n - 1) : apiCalls[m].pc # "idle"
  /\ apiCalls' = [apiCalls EXCEPT ![n] = issue([@ EXCEPT !.via = via])]
  /\ Issued
  /\ UNCHANGED authToken
  /\ UNCHANGED <<syncVars, ballotVars, threadVars, geoVars, notifyVars,
                 wizardVars>>

\* the response interceptor with the token left alone
onRejectedKeepsToken(token, status) == token

\* the response interceptor, lines 40-49: the token after the response
onRejected(token, status) ==
  IF status = 401 THEN setAuthToken(<<>>) ELSE token

\* retryRequest, lines 157-182: the catch of attempt i
retryRequest(c, status) ==
  IF status # 0 /\ status < 500
    THEN [c EXCEPT !.pc = "thrown"]
    ELSE IF c.i < RETRY_ATTEMPTS - 1
      THEN [c EXCEPT !.pc = "waiting", !.delays = Append(@, (2 ^ c.i) * 1000)]
      ELSE [c EXCEPT !.pc = "thrown"]

\* the request of call n settles with the status
ApiResponse(n, status) ==
  LET c == [apiCalls[n] EXCEPT !.statuses = Append(@, status)]
  IN /\ apiCalls[n].pc = "inflight"
     /\ authToken' = IF status = 200 THEN authToken
                       ELSE onRejected(authToken, status)
     /\ since401' = IF status = 401 /\ ~since401.cleared
                      THEN [cleared |-> TRUE, token |-> authToken, headers |-> {}]
                      ELSE since401
     /\ apiCalls' = [apiCalls EXCEPT ![n] =
          IF status = 200 THEN [c EXCEPT !.pc = "returned"]
          ELSE IF c.via = "endpoint" THEN [c EXCEPT !.pc = "thrown"]
          ELSE retryRequest(c, status)]
     /\ UNCHANGED <<syncVars, ballotVars, threadVars, geoVars, notifyVars,
                 wizardVars>>

\* the setTimeout of the backoff fires: the next round of the loop
BackoffElapsed(n) ==
  /\ apiCalls[n].pc = "waiting"
  /\ apiCalls' = [apiCalls EXCEPT ![n] = issue([@ EXCEPT !.i = @ + 1])]
  /\ Issued
  /\ UNCHANGED authToken
  /\ UNCHANGED <<syncVars, ballotVars, threadVars, geoVars, notifyVars,
                 wizardVars>>

NextRest ==
  \/ \E token \in Tokens : SetAuthToken(token)
  \/ \E n \in 1..MaxCalls, via \in Vias : ApiCallStart(n, via)
  \/ \E n \in 1..MaxCalls, status \in Statuses : ApiResponse(n, status)
  \/ \E n \in 1..MaxCalls : BackoffElapsed(n)

\* ------------------------------------------------------ geohash utilities
\* Coordinates are in hundredths of a degree, the step of getGeohashPrefixes;
\* radii are in metres. A number that can be NaN is <<>> for NaN and <<n>>
\* for n.
NaN == <<>>

Num(n) == <<n>>

base32 ==
  <<"0", "1", "2", "3", "4", "5", "6", "7", "8", "9", "b", "c", "d", "e", "f",
    "g", "h", "j", "k", "m", "n", "p", "q", "r", "s", "t", "u", "v", "w", "x",
    "y", "z">>

\* lonRange[1] - lonRange[0] and latRange[1] - latRange[0] at the start
LonSpan == 36000
LatSpan == 18000

\* where the coordinate lies in the start range; a coordinate outside the
\* range compares with every mid as the nearer end does
offset(value, span) ==
  LET at == value + (span \div 2)
  IN IF at < 0 THEN 0 ELSE IF at > span THEN span ELSE at

\* one subdivision that leaves the range as it was
halveKeepsRange(at, span) == [one |-> 2 * at >= span, at |-> at]

\* one subdivision, lines 19-25 and 27-33. The range is kept as the offset
\* of the coordinate in it, in units that double at every step so that the
\* range always measures `span`: coordinate >= mid is 2 * at >= span, and
\* the upper half starts at mid.
halve(at, span) ==
  IF 2 * at >= span THEN [one |-> TRUE, at |-> 2 * at - span]
  ELSE [one |-> FALSE, at |-> 2 * at]

\* one round of the while loop, lines 18-43
encodeStep(s) ==
  LET h == IF s.even THEN halve(s.lon, LonSpan) ELSE halve(s.lat, LatSpan)
      ch == IF h.one THEN s.ch + (2 ^ (4 - s.bit)) ELSE s.ch
      emit == s.bit + 1 = 5
  IN [lon |-> IF s.even THEN h.at ELSE s.lon,
      lat |-> IF s.even THEN s.lat ELSE h.at,
      geohash |-> IF emit THEN Append(s.geohash, base32[ch + 1]) ELSE s.geohash,
      bit |-> IF emit THEN 0 ELSE s.bit + 1,
      ch |-> IF emit THEN 0 ELSE ch,
      even |-> ~s.even]

\* while (geohash.length < precision): false for every length when
\* precision is NaN
RECURSIVE encodeLoop(_, _)
encodeLoop(s, precision) ==
  IF precision # NaN /\ Len(s.geohash) < precision[1]
    THEN encodeLoop(encodeStep(s), precision)
    ELSE s.geohash

\* encodeGeohash, lines 8-47
encodeGeohash(lat, lon, precision) ==
  encodeLoop([lon |-> offset(lon, LonSpan), lat |-> offset(lat, LatSpan),
              geohash |-> <<>>, bit |-> 0, ch |-> 0, even |-> TRUE],
             precision)

\* Math.max(3, Math.min(7, Math.floor(-Math.log2(radiusKm / 100)))), line
\* 51: log2 of a negative number is NaN and so is everything made of it;
\* -log2(0) is Infinity; and floor(-log2(r / 100)) >= p is r * 2^p <= 100
precisionFor(radius) ==
  IF radius < 0 THEN NaN
  ELSE IF radius = 0 THEN Num(7)
  ELSE LET fits == {q \in 3..7 : radius * (2 ^ q) <= 100 * 1000}
       IN IF fits = {} THEN Num(3)
          ELSE Num(CHOOSE q \in fits : \A r \in fits : r <= q)

\* Math.ceil(radiusKm / 111), line 55
stepsFor(radius) ==
  IF radius > 0 THEN (radius + 111 * 1000 - 1) \div (111 * 1000)
  ELSE 0 - ((0 - radius) \div (111 * 1000))

\* the two for loops, lines 57-66, from round k on; round k has
\* i = -steps + k div n and j = -steps + k mod n, n = 2 * steps + 1
RECURSIVE prefixLoop(_, _, _, _, _, _)
prefixLoop(k, prefixes, lat, lon, steps, precision) ==
  LET n == 2 * steps + 1
      i == (k \div n) - steps
      j == (k % n) - steps
      prefix == encodeGeohash(lat + i, lon + j, precision)
  IN IF n <= 0 \/ k >= n * n THEN prefixes
     ELSE prefixLoop(k + 1,
            IF \E m \in DOMAIN prefixes : prefixes[m] = prefix
              THEN prefixes ELSE Append(prefixes, prefix),
            lat, lon, steps, precision)

\* getGeohashPrefixes, lines 49-69
getGeohashPrefixes(lat, lon, radius) ==
  prefixLoop(0, <<>>, lat, lon, stepsFor(radius), precisionFor(radius))

Lats == {-9000, 3777}
Lons == {-12242, 0, 1041, 18000}
Precisions == 1..12
Radii == {-200000, -1000, 0, 500, 5000, 50000, 150000}

GeoCall(fn, lat, lon, arg, out) ==
  [fn |-> fn, lat |-> lat, lon |-> lon, arg |-> arg, out |-> out]

InitGeo == geo = GeoCall("none", 0, 0, 0, <<>>)

EncodeGeohash(lat, lon, precision) ==
  /\ geo' = GeoCall("encodeGeohash", lat, lon, precision,
                     encodeGeohash(lat, lon, Num(precision)))
  /\ UNCHANGED <<syncVars, ballotVars, threadVars, restVars, notifyVars,
                 wizardVars>>

GetGeohashPrefixes(lat, lon, radius) ==
  /\ geo' = GeoCall("getGeohashPrefixes", lat, lon, radius,
                     getGeohashPrefixes(lat, lon, radius))
  /\ UNCHANGED <<syncVars, ballotVars, threadVars, restVars, notifyVars,
                 wizardVars>>

NextGeo ==
  \/ \E lat \in Lats, lon \in Lons, precision \in Precisions :
        EncodeGeohash(lat, lon, precision)
  \/ \E lat \in Lats, lon \in Lons, radius \in Radii :
        GetGeohashPrefixes(lat, lon, radius)

\* ------------------------------------------------- nearby-hazard notifications
\* an incident as checkNearbyIncidents sees it: its status and what
\* calculateDistance(...) * 1000 gives for it and the user's location
Nearby(id, status, metres) == [id |-> id, status |-> status, metres |-> metres]

\* the incidents arguments
IncidentLists ==
  {<<>>,
   <<Nearby("x1", "open", 40)>>,
   <<Nearby("x1", "resolved", 40)>>,
   <<Nearby("x1", "open", 101)>>,
   <<Nearby("x1", "open", 101), Nearby("x2", "open", 100)>>}

InitNotify ==
  /\ notificationStore = [isEnabled |-> TRUE, lastNotificationTime |-> 0]
  /\ notifier = [clock |-> RateLimitMinutes, ticks |-> 0, made |-> 0,
                 checks |-> <<>>, shown |-> <<>>]

\* time passes
Tick(minutes) ==
  /\ notifier.ticks < MaxTicks
  /\ notifier' = [notifier EXCEPT !.clock = @ + minutes, !.ticks = @ + 1]
  /\ UNCHANGED notificationStore
  /\ UNCHANGED <<syncVars, ballotVars, threadVars, restVars, geoVars,
                 wizardVars>>

\* useNotificationStore.setIsEnabled
SetIsEnabled(enabled) ==
  /\ notificationStore.isEnabled # enabled
  /\ notificationStore' = [notificationStore EXCEPT !.isEnabled = enabled]
  /\ UNCHANGED notifier
  /\ UNCHANGED <<syncVars, ballotVars, threadVars, restVars, geoVars,
                 wizardVars>>

\* the filter of lines 156-167
nearbyIncidents(list) ==
  SelectSeq(list, LAMBDA incident :
    incident.status = "open" /\ incident.metres <= nearbyRadius)

\* lines 144-154: whether the call goes on to look at the incidents
passesGuards(store, now) ==
  /\ store.isEnabled
  /\ ~(now - store.lastNotificationTime < RateLimitMinutes)

\* checkNearbyIncidents up to its await, lines 140-179: the call returns at
\* a guard or with nothing nearby, or hands nearbyIncidents[0] to the
\* scheduler and waits
CheckNearbyIncidents(list) ==
  LET now == notifier.clock
      near == nearbyIncidents(list)
  IN /\ notifier.made < MaxChecks
     /\ notifier' = [notifier EXCEPT
          !.made = @ + 1,
          !.checks = IF passesGuards(notificationStore, now) /\ near # <<>>
                       THEN Append(@, [now |-> now, incident |-> near[1],
                                       enabled |-> notificationStore.isEnabled])
                       ELSE @]
     /\ UNCHANGED notificationStore
     /\ UNCHANGED <<syncVars, ballotVars, threadVars, restVars, geoVars,
                 wizardVars>>

\* scheduleNotificationAsync of waiting call n settles: the notification is
\* shown and line 182 runs, or the call throws
ScheduleDone(n, ok) ==
  /\ n \in DOMAIN notifier.checks
  /\ notifier' = [notifier EXCEPT
       !.checks = Without(@, n),
       !.shown = IF ok
                   THEN Append(@, [at |-> notifier.clock,
                                   incident |-> notifier.checks[n].incident,
                                   enabled |-> notifier.checks[n].enabled])
                   ELSE @]
  /\ notificationStore' = IF ok
       THEN [notificationStore EXCEPT
               !.lastNotificationTime = notifier.checks[n].now]
       ELSE notificationStore
  /\ UNCHANGED <<syncVars, ballotVars, threadVars, restVars, geoVars,
                 wizardVars>>

NextNotify ==
  \/ \E minutes \in {6, 12} : Tick(minutes)
  \/ \E enabled \in BOOLEAN : SetIsEnabled(enabled)
  \/ \E list \in IncidentLists : CheckNearbyIncidents(list)
  \/ \E n \in 1..MaxChecks, ok \in BOOLEAN : ScheduleDone(n, ok)

\* ------------------------------------------------- steps of the report flow
Steps == {"camera", "details", "submitting"}

\* what a handler that closes over handleSubmit sees of the state
Closure(w) == [description |-> w.description, currentLocation |-> w.currentLocation]

InitWizard ==
  wizard = [currentStep |-> "camera", description |-> <<>>,
            currentLocation |-> FALSE, photoUri |-> FALSE,
            isSubmitting |-> FALSE, mutation |-> "idle",
            seen |-> [description |-> <<>>, currentLocation |-> FALSE],
            submits |-> 0, outcome |-> "none"]

\* the render after a state update: useCallback makes a new handleNext, which
\* closes over the handleSubmit of that render, only when currentStep or
\* photoUri changed (the dependency list of line 656)
render(old, new) ==
  IF new.currentStep # old.currentStep \/ new.photoUri # old.photoUri
    THEN [new EXCEPT !.seen = Closure(new)]
    ELSE new

OtherVars == <<syncVars, ballotVars, threadVars, restVars, geoVars, notifyVars>>

\* handleTakePhotoPress / handlePickImagePress, lines 629-643, with a photo
handleTakePhotoPress ==
  /\ wizard.currentStep = "camera"
  /\ wizard' = render(wizard, [wizard EXCEPT !.photoUri = TRUE,
                                              !.currentStep = "details"])
  /\ UNCHANGED OtherVars

\* onChangeText of the description input of the details step
SetDescription(text) ==
  /\ wizard.currentStep = "details"
  /\ wizard.description # text
  /\ wizard' = render(wizard, [wizard EXCEPT !.description = text])
  /\ UNCHANGED OtherVars

\* getCurrentLocation() of the mount effect, lines 623-627, finds the location
LocationFound ==
  /\ ~wizard.currentLocation
  /\ wizard' = render(wizard, [wizard EXCEPT !.currentLocation = TRUE])
  /\ UNCHANGED OtherVars

\* canProceed, lines 866-873
canProceed(w) ==
  CASE w.currentStep = "camera" -> w.photoUri
    [] w.currentStep = "details" -> Len(trim(w.description)) > 0
    [] OTHER -> FALSE

\* handleSubmit, lines 666-686, up to its await, as called with the location
\* and description it closed over
submit(w, seen) ==
  IF ~seen.currentLocation \/ trim(seen.description) = <<>>
    THEN [w EXCEPT !.outcome = "rejected"]
    ELSE [w EXCEPT !.isSubmitting = TRUE, !.mutation = "pending",
                   !.outcome = "pending"]

\* handleNext, lines 649-656; the button is shown outside the submitting
\* step and disabled unless canProceed() and not isSubmitting
handleNext ==
  /\ wizard.currentStep # "submitting"
  /\ canProceed(wizard)
  /\ ~wizard.isSubmitting
  /\ wizard.submits < MaxSubmits
  /\ wizard' = render(wizard,
       IF wizard.currentStep = "camera" /\ wizard.photoUri
         THEN [wizard EXCEPT !.currentStep = "details"]
       ELSE IF wizard.currentStep = "details"
         THEN [submit(wizard, wizard.seen) EXCEPT !.currentStep = "submitting",
                                                  !.submits = @ + 1]
       ELSE wizard)
  /\ UNCHANGED OtherVars

\* handleBack, lines 658-664; the button is disabled in the camera step
handleBack ==
  /\ wizard.currentStep # "camera"
  /\ wizard' = render(wizard,
       [wizard EXCEPT !.currentStep =
          IF @ = "details" THEN "camera" ELSE "details"])
  /\ UNCHANGED OtherVars

\* createIncidentMutation.mutateAsync settles: the rest of handleSubmit,
\* lines 688-702
CreateSettled(ok) ==
  /\ wizard.mutation = "pending"
  /\ wizard' = render(wizard,
       [wizard EXCEPT !.mutation = "idle", !.isSubmitting = FALSE,
                      !.outcome = IF ok THEN "success" ELSE "failed",
                      !.currentStep = IF ok THEN @ ELSE "details"])
  /\ UNCHANGED OtherVars

NextWizard ==
  \/ handleTakePhotoPress
  \/ \E text \in Texts : SetDescription(text)
  \/ LocationFound
  \/ handleNext
  \/ handleBack
  \/ \E ok \in BOOLEAN : CreateSettled(ok)

\* ---------------------------------------------------------- specifications
Init ==
  /\ InitChannel /\ InitCache /\ InitEvents /\ InitReport /\ InitFetch
  /\ InitBallot /\ InitThread /\ InitRest /\ InitGeo /\ InitNotify
  /\ InitWizard

\* the realtime channel alone
SpecChannel == Init /\ [][NextChannel]_vars

\* the incident cache and the flows that write it
SpecCache == Init /\ [][NextCache]_vars

\* the dispatch of the frames of the channel to the registered handlers
SpecEvents == Init /\ [][NextEvents]_vars

\* the submission of a report, from either report screen
SpecReport == Init /\ [][NextReport]_vars

\* the nearby-incidents requests of the map
SpecFetch == Init /\ [][NextFetch]_vars

\* the votes of one user on one incident of the detail screen
SpecBallot == Init /\ [][NextBallot]_vars

\* the comments of one user on one incident of the detail screen
SpecThread == Init /\ [][NextThread]_vars

\* the calls to ApiService
SpecRest == Init /\ [][NextRest]_vars

\* calls of the geohash utilities
SpecGeo == Init /\ [][NextGeo]_vars

\* the nearby-hazard notifications
SpecNotify == Init /\ [][NextNotify]_vars

\* the steps of the report flow
SpecWizard == Init /\ [][NextWizard]_vars

\* ------------------------------------------------------------------ claims
\* the topics of the frames the last handler sent, as keys
SentKeys == [i \in 1..Len(last.sent) |-> getSubscriptionKey(last.sent[i])]

\* C1: when a socket made by a reconnect timer opens after an unclean
\* closure, the frames sent are exactly one subscribe frame for every topic
\* that was in the desired-subscription set at the closure.
C1_ReplayExactlyOnce ==
  (last.op = "reopen" /\ last.wanted # <<>>) =>
    /\ Range(SentKeys) = last.wanted[1]
    /\ Len(last.sent) = Cardinality(last.wanted[1])

\* C2: subscribe(topic) while the channel is not connected adds the topic to
\* the desired-subscription set.
C2_SubscribeOfflineIsKept ==
  (last.op = "subscribe" /\ ~isConnected) =>
    getSubscriptionKey(last.sub) \in Range(subscriptions)

\* C3: unsubscribe(topic) while the channel is not connected removes the
\* topic from the desired-subscription set.
C3_UnsubscribeOfflineIsDropped ==
  (last.op = "unsubscribe" /\ ~isConnected) =>
    getSubscriptionKey(last.sub) \notin Range(subscriptions)

\* C4: after disconnect(), and until the client calls connect(), the
\* desired-subscription set is empty, no heartbeat timer runs and there is no
\* connection.
C4_DisconnectIsFinal ==
  disconnected => (subscriptions = <<>> /\ intervals = 0 /\ ws = "null")

C6_AtMostOneSocket == Alive <= 1

\* the cache entries with the id of the operation that ran last
Entries == SelectSeq(incidents, LAMBDA i : i.id = done.id)

RealtimeUpdates == {"incident.updated", "incident.voted"}

\* C7: when the vote call of an optimistic vote on a cached incident fails
\* and no other flow updated that incident in between, the cached score is
\* the score from before the vote.
C7_RollbackRestoresScore ==
  (done.op = "voteFailed" /\ done.before # <<>> /\ ~done.touched
     /\ Entries # <<>>) =>
    Entries[1].score = done.before[1].score

\* C8: when another flow wrote the incident between the optimistic apply and
\* the failure, the rollback leaves what that flow wrote, with only the
\* vote's delta taken off the score.
C8_RollbackKeepsInterleaved ==
  (done.op = "voteFailed" /\ done.before # <<>> /\ done.other # <<>>) =>
    Entries = <<[done.other[1] EXCEPT !.score = @ - done.value]>>

\* C9: a realtime incident.updated or incident.voted event whose updatedAt is
\* older than that of the cached entry with the same id leaves the cache
\* unchanged.
C9_StaleEventIsNoOp ==
  [][(/\ done'.op \in RealtimeUpdates
      /\ done'.before # <<>>
      /\ done'.other[1].updatedAt < done'.before[1].updatedAt)
       => incidents' = incidents]_vars

\* C10: after a realtime incident.updated or incident.voted event the cache
\* holds exactly one entry with that id: the event's incident, inserted when
\* the id was absent, written over the entry when it was not newer.
C10_UpsertInsertsIfAbsent ==
  done.op \in RealtimeUpdates =>
    /\ Len(Entries) = 1
    /\ (done.before = <<>>
          \/ done.other[1].updatedAt >= done.before[1].updatedAt)
         => Entries = done.other

\* C11: after a nearby page fetched with a cursor is merged into the cache,
\* every incident id occurs at most once in the cache and every fetched record
\* is the cache's entry for its id.
C11_AppendMergesById ==
  done.op = "append" =>
    /\ \A i, j \in DOMAIN incidents :
         incidents[i].id = incidents[j].id => i = j
    /\ \A k \in DOMAIN done.other :
         Find(incidents, done.other[k].id) = <<done.other[k]>>

\* C12: once an incident.created event for incident x has been delivered on
\* a subscribed area, the cache holds exactly one entry with id x.
C12_CreatedEventIsCachedOnce ==
  (/\ delivered.frame.type = "incident.created"
   /\ getSubscriptionKey(AreaSub(<<"9">>)) \in Range(subscriptions)) =>
    Len(SelectSeq(incidents, LAMBDA i : i.id = delivered.frame.data[1].id)) = 1

\* a frame that is JSON for an object with a type
Typed(frame) == frame.json = "object" /\ frame.type # ""

\* C20: a frame that is not JSON or not a typed event calls no handler and
\* changes neither the channel nor the handler table; a typed event calls
\* every handler registered for its type, in order, also those after a
\* handler that throws, and no exception leaves ws.onmessage, whatever the
\* frames before it did.
C20_DispatchIsRobust ==
  [][delivered' # delivered =>
       /\ UNCHANGED <<chanVars, eventHandlers>>
       /\ ~delivered'.uncaught
       /\ delivered'.invoked =
            IF Typed(delivered'.frame)
              THEN handlersOf(eventHandlers, delivered'.frame.type)
              ELSE <<>>]_vars

\* a typed event was dispatched to a handler that threw and then to the one
\* registered after it, and the frame before it had made a handler throw too
C20_Witness ==
  /\ delivered.invoked = <<"throws", "returns">>
  /\ delivered.errors = 1
  /\ delivered.afterThrow

\* C13: when the vote call succeeds with score S and the incident is cached,
\* the cache's entry for it is afterwards the entry cached at the time of the
\* confirmation with its score replaced by S.
C13_ConfirmationSetsServerScore ==
  (done.op = "voteConfirmed" /\ done.before # <<>>) =>
    /\ Entries # <<>>
    /\ \A i \in DOMAIN Entries :
         Entries[i] = [done.before[1] EXCEPT !.score = done.value]

\* a confirmation whose score differs from the optimistic one in the cache,
\* of a vote whose incident another flow had written in between
C13_Witness ==
  /\ done.op = "voteConfirmed"
  /\ done.before # <<>>
  /\ done.before[1].score # done.value
  /\ done.touched
  /\ Entries # <<>>

CreateCalls == {"createIncident", "saveReport"}

UploadCalls == {"requestUpload", "uploadPhoto", "uploadImagesToS3"}

\* the uploads a submission with a photo makes before it creates the report
UploadsOf(flow) ==
  IF flow = "ReportFlow" THEN {"requestUpload", "uploadPhoto"}
  ELSE {"uploadImagesToS3"}

\* C14: the create call of a submission with a photo is issued only after
\* the upload-URL request and the photo upload have completed, and the lists
\* of incidents differ from what they were when the submission began only
\* after its create call has succeeded (so not when it failed).
C14_CreateAfterUploadCacheAfterCreate ==
  /\ \A i \in DOMAIN calls :
       (calls[i].call \in CreateCalls /\ report.photo) =>
         \A u \in UploadsOf(report.flow) :
           \E j \in 1..(i - 1) :
             calls[j].call = u /\ calls[j].status # "pending"
  /\ Lists # report.before =>
       \E i \in DOMAIN calls :
         calls[i].call \in CreateCalls /\ calls[i].status = "ok"

\* C15: a submission with a photo whose upload-URL request or photo upload
\* failed has issued its create call by the time it ends.
C15_UploadFailureStillCreates ==
  (/\ Settled
   /\ report.photo
   /\ \E i \in DOMAIN calls :
        calls[i].call \in UploadCalls /\ calls[i].status = "failed") =>
    \E i \in DOMAIN calls : calls[i].call \in CreateCalls

\* C16: a submission without location data or with a blank description
\* sends no upload and no create request and leaves the lists of incidents
\* as they were, and no submission goes on with the default location.
C16_InvalidReportIsRejected ==
  (/\ report.flow # "none"
   /\ report.location \in {"none", "default"} \/ report.text = <<>>) =>
    /\ \A i \in DOMAIN calls : calls[i].call \notin CreateCalls \cup UploadCalls
    /\ Lists = report.before

C18_ConnectedHasHeartbeat ==
  /\ last.op \in {"open", "reopen"} =>
       (reconnectAttempts = 0 /\ heartbeatInterval /\ intervals > 0)
  /\ isConnected => (heartbeatInterval /\ intervals > 0)

\* the closures that are not clean
Unclean == {"unclean", "unclean after disconnect"}

Backoff == <<1000, 2000, 4000, 8000, 16000>>

RECURSIVE Active(_)
Active(cast) ==
  IF cast = <<>> THEN 0
  ELSE LET before == Active(SubSeq(cast, 1, Len(cast) - 1))
           value == cast[Len(cast)]
       IN IF before = value THEN 0 ELSE value

Shown(b) == b.incidents[1].score

\* C21: a vote action changes the displayed score by the change of the user's
\* active vote: a repeat of the active value takes it back (cancels), the
\* other value replaces it, so the user's net contribution to the displayed
\* score stays in {-1, 0, +1}.
C21_OneActiveVotePerUser ==
  [][ballot'.taps > ballot.taps =>
       LET value == ballot'.pending[1].value
       IN /\ Active(Append(ballot.cast, value)) \in {-1, 0, 1}
          /\ Shown(ballot') - Shown(ballot)
               = Active(Append(ballot.cast, value)) - Active(ballot.cast)]_vars

CommentsCount(t) == t.incidents[1].commentsCount

\* C22: a comment action raises the cached commentsCount by 1 at once, and
\* the failure of the comment call takes that increment away again.
C22_CommentCountIsOptimistic ==
  [][IF ~thread.isSubmittingComment /\ thread'.isSubmittingComment
       THEN CommentsCount(thread') = CommentsCount(thread) + 1
       ELSE (thread.isSubmittingComment /\ thread'.outcome = "failed")
              => CommentsCount(thread') = CommentsCount(thread) - 1]_vars

Finished(c) == c.pc \in {"returned", "thrown"}

ClientError(status) == status # 0 /\ status >= 400 /\ status < 500

\* C23: no attempt follows a 4xx response or a success; a call that ends on a
\* 5xx response or a network error has made RETRY_ATTEMPTS attempts; the k-th
\* retry waited 1000 * 2^(k-1) ms; a call returns exactly when its last
\* attempt succeeded.
C23_RetryPolicy ==
  \A n \in 1..MaxCalls :
    LET c == apiCalls[n]
        final == c.statuses[Len(c.statuses)]
    IN /\ \A k \in 1..(Len(c.statuses) - 1) :
            c.statuses[k] # 200 /\ ~ClientError(c.statuses[k])
       /\ Len(c.statuses) <= RETRY_ATTEMPTS
       /\ \A k \in DOMAIN c.delays : c.delays[k] = 1000 * 2 ^ (k - 1)
       /\ Finished(c) =>
            /\ (c.pc = "returned") = (final = 200)
            /\ Len(c.delays) = Len(c.statuses) - 1
            /\ (final # 200 /\ ~ClientError(final))
                  => Len(c.statuses) = RETRY_ATTEMPTS

\* C24: after a 401 response, and until a token is set again, no request is
\* issued with an Authorization header.
C24_UnauthorizedClearsToken ==
  since401.cleared =>
    /\ authToken = <<>>
    /\ \A header \in since401.headers : header = <<>>

\* a 401 has arrived while a token was stored and a request has been issued
\* since
C24_Witness ==
  /\ since401.cleared
  /\ requestInterceptor(since401.token) # <<>>
  /\ since401.headers # {}

\* C25: getGeohashPrefixes returns a non-empty list without duplicates that
\* holds the geohash of the center at a precision within 3..7, and every
\* prefix in it has a length within 3..7, whatever the radius.
C25_PrefixesCoverCenter ==
  geo.fn = "getGeohashPrefixes" =>
    /\ geo.out # <<>>
    /\ \A m, n \in DOMAIN geo.out : geo.out[m] = geo.out[n] => m = n
    /\ \A m \in DOMAIN geo.out : Len(geo.out[m]) \in 3..7
    /\ \E q \in 3..7 : \E m \in DOMAIN geo.out :
          geo.out[m] = encodeGeohash(geo.lat, geo.lon, Num(q))

\* the value of bit k (from 1) of a geohash: 5 bits per character, the
\* first bit of a character being its highest
HashBit(hash, k) ==
  LET char == hash[(k - 1) \div 5 + 1]
      index == (CHOOSE m \in DOMAIN base32 : base32[m] = char) - 1
  IN (index \div (2 ^ (4 - ((k - 1) % 5)))) % 2

\* bit n (from 1) of the binary subdivision of [0, span] around `at`: whether
\* `at` lies in the upper half of its cell of level n - 1; the top end
\* belongs to the last cell
CellBit(at, span, n) ==
  IF at >= span THEN 1
  ELSE IF n <= 15 THEN ((at * (2 ^ n)) \div span) % 2
  ELSE ((((at * (2 ^ 15)) % span) * (2 ^ (n - 15))) \div span) % 2

\* C26: encodeGeohash returns exactly `precision` base-32 characters for a
\* precision within 1..12; bit k of the result is the next subdivision of
\* the longitude for odd k and of the latitude for even k; and the result
\* is a prefix of the geohash of the same point at every higher precision.
C26_EncodeIsPrefixStable ==
  geo.fn = "encodeGeohash" =>
    /\ Len(geo.out) = geo.arg
    /\ \A m \in DOMAIN geo.out : \E c \in DOMAIN base32 : geo.out[m] = base32[c]
    /\ \A k \in 1..(5 * Len(geo.out)) :
         HashBit(geo.out, k) =
           IF k % 2 = 1
             THEN CellBit(offset(geo.lon, LonSpan), LonSpan, (k + 1) \div 2)
             ELSE CellBit(offset(geo.lat, LatSpan), LatSpan, k \div 2)
    /\ \A q \in Precisions :
         q > geo.arg =>
           SubSeq(encodeGeohash(geo.lat, geo.lon, Num(q)), 1, geo.arg) = geo.out

\* a geohash of 12 characters has been computed for a point inside the
\* ranges
C26_Witness ==
  /\ geo.fn = "encodeGeohash"
  /\ geo.arg = 12
  /\ geo.lat = 3777 /\ geo.lon = -12242
  /\ Len(geo.out) = 12
  /\ SubSeq(geo.out, 1, 5) = <<"9", "q", "8", "y", "y">>

\* a step in which a promise returned by connect() resolves: connect()
\* returned Promise.resolve() (the guard of line 27), or the onopen of a
\* socket called resolve()
ConnectResolves ==
  \/ /\ connectIsNoOp
     /\ last' = Note("connect", NoSub, <<>>)
     /\ UNCHANGED <<ws, detached, isConnecting, reconnectAttempts,
                    subscriptions, heartbeatInterval, intervals, timers,
                    atClose, scheduled>>
  \/ /\ last'.op \in {"open", "reopen"}
     /\ intervals' = intervals + 1

\* C27: when a promise returned by connect() resolves, the channel is
\* connected, so that a subscribe() made next is sent.
C27_ResolvedConnectIsConnected ==
  [][ConnectResolves => isConnected']_vars

\* C28: at most one heartbeat timer is running, one is running only while
\* the channel is connected, and none is running once a close event or
\* disconnect() has been handled.
C28_OneHeartbeatWhileOpen ==
  /\ intervals <= 1
  /\ intervals > 0 => isConnected
  /\ last.op \in Unclean \cup {"close", "disconnect"} => intervals = 0

\* C29: two notifications are never shown less than 12 minutes apart (so at
\* most 5 in an hour), and every notification shown is for an open incident
\* within nearbyRadius metres and was asked for while notifications were
\* enabled.
C29_NotificationRateLimit ==
  /\ \A m, n \in DOMAIN notifier.shown :
       m < n => notifier.shown[n].at - notifier.shown[m].at >= RateLimitMinutes
  /\ \A n \in DOMAIN notifier.shown :
       /\ notifier.shown[n].incident.status = "open"
       /\ notifier.shown[n].incident.metres <= nearbyRadius
       /\ notifier.shown[n].enabled

\* C30: the report flow is in the submitting step only while a submission is
\* in flight: it has left the step once the attempt has succeeded, failed on
\* the server or been rejected by the validation.
C30_SubmittingHasSubmissionInFlight ==
  wizard.currentStep = "submitting" => wizard.mutation = "pending"
====
